---- MODULE Spec2Model ----
(***************************************************************************)
(* A model of the deduplicating backup engine: the bolt-backed metadata    *)
(* store (db.go), the Google Cloud Storage client (cloud.go) and the       *)
(* walker with its worker pool (cmd/backup/main.go).                       *)
(*                                                                         *)
(* One behaviour is a sequence of runs of the program (main).  Between two *)
(* runs the file tree may change.  Inside a run the traversal goroutine    *)
(* and the worker goroutines interleave at the granularity of their        *)
(* synchronisation points: channel operations, bolt transactions, the      *)
(* mTouched critical section and the calls to the remote store.            *)
(***************************************************************************)
EXTENDS Integers, Sequences, FiniteSets, TLC

\* ------------------------------------------------------------------ bounds

\* Number of worker goroutines (flag --threads).
Threads == 2

\* Number of runs of the program in one behaviour.
MaxRuns == 2

\* ------------------------------------------------------------ the file tree

\* The entries filepath.Walk can find under the root, in the lexical order in
\* which it visits them.  "@eaDir" is a directory, the others are files.
PathOrder == <<"0.ini", "@eaDir", "E", "a", "b">>

\* The names of the entries.  They stand for the path below the root as well:
\* filepath.Rel(i.root, fp).
Paths == {PathOrder[i] : i \in 1..Len(PathOrder)}

\* Default of flag --skipDir, split on commas.
skipDirs == {"@eaDir", ".thumbcache"}

\* The names of the tree that end in one of the suffixes of flag --skipFile
\* (".dttags,.ini,thumbs.db,.DS_Store"): strings.HasSuffix(fi.Name(), f).
HasSkipSuffix(name) == name \in {"0.ini"}

\* What a file holds, as far as the program looks at it: its size and the
\* sha256 of the bytes computeChecksum samples.
Empty == [dir |-> FALSE, size |-> 0, sum |-> "h0"]

\* Two files of different content, and a directory.
F1 == [dir |-> FALSE, size |-> 1, sum |-> "h1"]

F2 == [dir |-> FALSE, size |-> 2, sum |-> "h2"]

Dir == [dir |-> TRUE, size |-> 0, sum |-> ""]

\* What each entry can be when it exists.
Kinds(p) ==
    IF p = "@eaDir" THEN {Dir}
    ELSE IF p = "0.ini" THEN {F1}
    ELSE IF p = "E" THEN {Empty}
    ELSE {F1, F2}

\* The entries every tree holds; "a" and "b" come and go.
Fixed == {"0.ini", "@eaDir", "E"}

\* The trees a run can meet.
Trees ==
    UNION { {t \in [D -> {Dir, Empty, F1, F2}] : \A p \in D : t[p] \in Kinds(p)}
            : D \in {D \in SUBSET Paths : Fixed \subseteq D} }

\* The entries of the tree in the order filepath.Walk visits them.
RECURSIVE ListingFrom(_, _)
ListingFrom(t, i) ==
    IF i > Len(PathOrder) THEN <<>>
    ELSE IF PathOrder[i] \in DOMAIN t
         THEN <<PathOrder[i]>> \o ListingFrom(t, i + 1)
         ELSE ListingFrom(t, i + 1)

\* The whole walk.
Listing(t) == ListingFrom(t, 1)

\* -------------------------------------------------------------------- db.go

\* computeKey: the 8 bytes of the size followed by the 32 bytes of the hash.
computeKey(size, sha256) == <<size, sha256>>

Keys == {computeKey(f.size, f.sum) : f \in {F1, F2}}

\* type Entry.  Cloud = "" and MD5 = <<>> are Go's zero values.
Entry(id, path, cloudPath, size, hash, md5) ==
    [ID |-> id, Path |-> path, Cloud |-> cloudPath, Size |-> size,
     Hash |-> hash, MD5 |-> md5]

\* bkt.Put inside encodeAndPut: the value stored under key is replaced.
encodeAndPut(bkt, key, e) ==
    [k \in DOMAIN bkt \cup {key} |-> IF k = key THEN e ELSE bkt[k]]

\* Every entry found is taken for one whose upload did not complete.
IncompleteAlways(e) == TRUE

\* The test of DB.Add on an entry it found: the upload did not complete.
Incomplete(e) == e.Cloud = "" \/ Len(e.MD5) = 0

\* bkt.NextSequence.
NextSequence(s) == s + 1

\* DB.Add taking an entry whose upload did not complete for an absent one.
DBAddRecreate(bkt, s, path, size, sha256) ==
    LET key == computeKey(size, sha256)
        id == NextSequence(s)
    IN IF key \in DOMAIN bkt /\ bkt[key].Cloud # ""
       THEN [bkt |-> bkt, seq |-> s, added |-> FALSE,
             id |-> bkt[key].ID, rPath |-> bkt[key].Path]
       ELSE [bkt |-> encodeAndPut(bkt, key, Entry(id, path, "", size, sha256, <<>>)),
             seq |-> id, added |-> TRUE, id |-> id, rPath |-> ""]

\* DB.Add without the test that the element is present.
DBAddBlind(bkt, s, path, size, sha256) ==
    LET key == computeKey(size, sha256)
        id == NextSequence(s)
    IN [bkt |-> encodeAndPut(bkt, key, Entry(id, path, "", size, sha256, <<>>)),
        seq |-> id, added |-> TRUE, id |-> id, rPath |-> ""]

\* The transaction of DB.Add when it commits: the bucket, its sequence and
\* the values returned (added, id, rPath).
DBAdd(bkt, s, path, size, sha256) ==
    LET key == computeKey(size, sha256) IN
    IF key \in DOMAIN bkt
    THEN [bkt |-> bkt, seq |-> s, added |-> Incomplete(bkt[key]),
          id |-> bkt[key].ID, rPath |-> bkt[key].Path]
    ELSE LET id == NextSequence(s) IN
         [bkt |-> encodeAndPut(bkt, key, Entry(id, path, "", size, sha256, <<>>)),
          seq |-> id, added |-> TRUE, id |-> id, rPath |-> ""]

\* The transaction of DB.Update when it commits, e being fn applied to the
\* decoded entry.  A key that is not in the bucket is an error: no write.
DBUpdate(bkt, key, e) ==
    IF key \in DOMAIN bkt THEN encodeAndPut(bkt, key, e) ELSE bkt

\* The byte order of two hashes.
HashRank(h) == CASE h = "h0" -> 0 [] h = "h1" -> 1 [] h = "h2" -> 2 [] OTHER -> 3

\* The byte order of two keys.  The sizes of the model fit in the first of
\* the eight little-endian bytes, so they order as numbers.
KeyLess(k1, k2) ==
    \/ k1[1] < k2[1]
    \/ k1[1] = k2[1] /\ HashRank(k1[2]) < HashRank(k2[2])

\* The keys of the bucket in the order of bolt's cursor, First to Next.
RECURSIVE Cursor(_)
Cursor(ks) ==
    IF ks = {} THEN <<>>
    ELSE LET k == CHOOSE x \in ks : \A y \in ks \ {x} : KeyLess(x, y)
         IN <<k>> \o Cursor(ks \ {k})

\* The test of DB.CheckMissing with the negation dropped.
IsMissingFlipped(found, e) == e.ID \in found

\* The test of DB.CheckMissing on one entry.
IsMissing(found, e) == e.ID \notin found

\* DB.CheckMissing: the lines it prints, one per entry that is not found.
RECURSIVE MissingLines(_, _, _)
MissingLines(bkt, found, ks) ==
    IF ks = <<>> THEN <<>>
    ELSE LET e == bkt[Head(ks)]
             rest == MissingLines(bkt, found, Tail(ks))
         IN IF IsMissing(found, e)
            THEN <<[key |-> Head(ks), path |-> e.Path, id |-> e.ID]>> \o rest
            ELSE rest

\* DB.CheckMissing over the whole bucket.
CheckMissing(bkt, found) == MissingLines(bkt, found, Cursor(DOMAIN bkt))

\* ----------------------------------------------------------------- cloud.go

\* Flag --name: the directory of the bucket the objects go to.
BackupDir == "n"

\* filepath.Join(i.dir, p).
CloudJoin(dir, p) == dir \o "/" \o p

\* encode: the hash in upper-case hexadecimal.
encode(hash) == "X" \o hash

\* attrs.MD5: the checksum the remote store computes for the bytes written.
\* The files of one content key hold the same bytes here, so it is a
\* non-empty byte string fixed by the key.
ObjectMD5(size, hash) == <<hash>>

\* An object of the bucket: its size, its metadata[metadataHashKey] ("" when
\* the key is not set) and its MD5.
Object(size, meta, md5) == [size |-> size, meta |-> meta, md5 |-> md5]

\* An object of the size of this file is taken for it, whatever its digest.
SameFileSize(attrs, size, hash) == attrs.size = size

\* Any object found at the path is taken for this file.
SameFileAny(attrs, size, hash) == TRUE

\* The test of Cloud.Upload on the attributes of an object it found.
SameFile(attrs, size, hash) == attrs.size = size /\ attrs.meta = encode(hash)

\* ---------------------------------------------------- cmd/backup/main.go

\* computeChecksum when it succeeds: the sha256 of the sampled bytes.
computeChecksum(t, path, size) == t[path].sum

\* The closure of the upload branch building the entry anew, its ID left out.
SetCloudFresh(e, cloudPath, md5) == Entry(0, e.Path, cloudPath, e.Size, e.Hash, md5)

\* The closure of the rename branch building the entry anew from the path.
SetPathReset(e, p) == Entry(e.ID, p, "", e.Size, e.Hash, <<>>)

\* The closure of the rename branch leaving the entry as it is.
SetPathKeep(e, p) == e

\* The closure of the rename branch moving the cloud path with the file.
SetPathAndCloud(e, p) == [e EXCEPT !.Path = p, !.Cloud = CloudJoin(BackupDir, p)]

\* The closure of the upload branch leaving the checksum out.
SetCloudOnly(e, cloudPath, md5) == [e EXCEPT !.Cloud = cloudPath]

\* The two UpdateFn closures of walker.work: the one of the upload branch
\* and the one of the rename branch.
SetCloud(e, cloudPath, md5) == [e EXCEPT !.Cloud = cloudPath, !.MD5 = md5]

SetPath(e, p) == [e EXCEPT !.Path = p]

\* -------------------------------------------------------------------- state

\* The worker goroutines Walk starts.
Workers == 1..Threads

VARIABLES
    run,        \* number of runs started
    phase,      \* where main is: idle, walk, closed, reported, fatal, crashed
    tree,       \* the file tree of this run
    sameTree,   \* this run's tree is the tree of the run before
    clean,      \* history: no run before this one met a failure
    crashed,    \* history: the run before this one was interrupted
    pos,        \* the number of entries of the listing filepath.Walk is past
    walkErr,    \* filepath.Walk returned an error
    wc,         \* the work channel
    sent,       \* history: the items walker.visit sent on the work channel
    got,        \* history: the items the workers received, in order
    joined,     \* how many values Walk received from the done channel
    wk,         \* per worker: its place in worker/work and its local variables
    touched,    \* walker.touched: the ids mapped to true
    store,      \* the bolt bucket: key -> Entry
    seq,        \* the sequence of the bolt bucket
    cloud,      \* the remote bucket: object path -> Object
    store0,     \* history: the bolt bucket when this run started
    log,        \* history: what happened to each file of this run
    upOK,       \* history: the keys Cloud.Upload returned success for
    created,    \* history: the ids of the entries DB.Add created, in order
    report      \* the lines DB.CheckMissing printed in this run

vars == <<run, phase, tree, sameTree, clean, crashed, pos, walkErr, wc, sent, got, joined, wk, touched,
          store, seq, cloud, store0, log, upOK, created, report>>

\* A worker between two files.
Idle(pc) ==
    [pc |-> pc, path |-> "", size |-> 0, sum |-> "", added |-> FALSE,
     id |-> 0, dbpath |-> "", cloud |-> "", md5 |-> <<>>]

\* One event of the history of a run; "of" is the path a duplicate line
\* names, empty in every other event.
Ev(ev, p, id, ok) == [ev |-> ev, path |-> p, id |-> id, ok |-> ok, of |-> ""]

\* Flag --dir: the root of the tree.
root == "d"

\* filepath.Join(i.root, dbpath), which drops an empty element.
RootJoin(dir, p) == IF p = "" THEN dir ELSE dir \o "/" \o p

\* The line "File fp is a likely a duplicate of ...": the path it names.
DupLine(p, dbpath) == RootJoin(root, dbpath)

\* walker.worker got an error from work and printed "Cannot process file".
Cannot(p) == Ev("error", p, 0, FALSE)

Init ==
    /\ run = 0
    /\ phase = "idle"
    /\ tree = <<>>
    /\ sameTree = FALSE
    /\ clean = TRUE
    /\ crashed = FALSE
    /\ pos = 0
    /\ walkErr = FALSE
    /\ wc = <<>>
    /\ sent = <<>>
    /\ got = <<>>
    /\ joined = 0
    /\ wk = [w \in Workers |-> Idle("exit")]
    /\ touched = {}
    /\ store = <<>>
    /\ seq = 0
    /\ cloud = <<>>
    /\ store0 = <<>>
    /\ log = {}
    /\ upOK = {}
    /\ created = <<>>
    /\ report = <<>>

\* The failures of this run: a fingerprint, DB.Add, Cloud.Upload or DB.Update
\* that returned an error.
Failures ==
    {e \in log : e.ev \in {"hash", "add", "upload", "update", "rename"} /\ ~e.ok}

\* No file read, store transaction or remote call failed in this run: the
\* traversal returned no error and the only errors are those of Cloud.Upload
\* on finding an object of another content at the path.
NoFault ==
    /\ ~walkErr
    /\ \A e \in Failures :
         e.ev = "upload" /\ Ev("conflict", e.path, e.id, FALSE) \in log

\* ------------------------------------------------------------- main and Walk

\* main up to the start of filepath.Walk: a new process opens the store and
\* the bucket, Walk makes the channels and the touched map and starts the
\* workers.  The tree is whatever the operator left on disk.
StartRun ==
    /\ phase \in {"idle", "reported", "fatal", "crashed"}
    /\ run < MaxRuns
    /\ \E t \in Trees :
        /\ tree' = t
        /\ sameTree' = (run > 0 /\ t = tree)
    /\ clean' = (clean /\ NoFault)
    /\ crashed' = (phase = "crashed")
    /\ run' = run + 1
    /\ phase' = "walk"
    /\ pos' = 0
    /\ walkErr' = FALSE
    /\ wc' = <<>>
    /\ sent' = <<>>
    /\ got' = <<>>
    /\ joined' = 0
    /\ wk' = [w \in Workers |-> Idle("recv")]
    /\ touched' = {}
    /\ store0' = store
    /\ log' = {}
    /\ report' = <<>>
    /\ UNCHANGED <<store, seq, cloud, upOK, created>>

\* What walker.visit does with an entry: "skipdir", "skipfile", "empty" or
\* "push".
visit(p, f) ==
    IF f.dir THEN (IF p \in skipDirs THEN "skipdir" ELSE "dir")
    ELSE IF HasSkipSuffix(p) THEN "skipfile"
    ELSE IF f.size <= 0 THEN "empty"
    ELSE "push"

\* filepath.Walk calls walker.visit on the next entry.
Visit ==
    /\ phase = "walk"
    /\ pos < Len(Listing(tree))
    /\ LET p == Listing(tree)[pos + 1]
           what == visit(p, tree[p])
       IN \/ /\ what # "push"
             /\ pos' = pos + 1
             /\ UNCHANGED <<wc, sent, walkErr>>
          \/ /\ what = "push"
             /\ Len(wc) < 2 * Threads
             /\ wc' = Append(wc, [path |-> p, size |-> tree[p].size])
             /\ sent' = Append(sent, [path |-> p, size |-> tree[p].size])
             /\ pos' = pos + 1
             /\ UNCHANGED walkErr
          \/ \* visit is called with err # nil and returns it: the walk stops
             /\ walkErr' = TRUE
             /\ pos' = Len(Listing(tree))
             /\ UNCHANGED <<wc, sent>>
    /\ UNCHANGED <<run, phase, tree, sameTree, clean, crashed, got, joined, wk, touched, store, seq,
                   cloud, store0, log, upOK, created, report>>

\* filepath.Walk has returned: close(w.wc).
CloseQueue ==
    /\ phase = "walk"
    /\ pos = Len(Listing(tree))
    /\ phase' = "closed"
    /\ UNCHANGED <<run, tree, sameTree, clean, crashed, sent, got, pos, walkErr, wc, joined, wk, touched,
                   store, seq, cloud, store0, log, upOK, created, report>>

\* Walk waits for one value more than there are workers.
WaitedOneMore(n) == n = Threads + 1

\* Walk leaves the loop without a receive from the done channel.
WaitedNone(n) == TRUE

\* for i := 0; i < threads; i++ { <-w.dc }: the loop is over after one
\* receive per worker.
Waited(n) == n = Threads

\* Walk returns to main, which stops on an error (log.Fatalf) and otherwise
\* calls db.CheckMissing(touched).
Return ==
    /\ phase = "closed"
    /\ Waited(joined)
    /\ \/ /\ walkErr
          /\ phase' = "fatal"
          /\ UNCHANGED report
       \/ /\ ~walkErr
          /\ phase' = "reported"
          /\ report' = CheckMissing(store, touched)
    /\ UNCHANGED <<run, tree, sameTree, clean, crashed, sent, got, pos, walkErr, wc, joined, wk, touched,
                   store, seq, cloud, store0, log, upOK, created>>

\* ------------------------------------------------------------ walker.worker

\* The worker's place goes back to the range over the work channel.
Next0(w) == [wk EXCEPT ![w] = Idle("recv")]

\* A receive that leaves the item in the channel.
RestKeep(q) == q

\* What a receive leaves in the channel.
Rest(q) == Tail(q)

\* for f := range i.wc, then the start of work: computeChecksum, which
\* fails when the file cannot be opened or read.
Receive(w) ==
    /\ wk[w].pc = "recv"
    /\ wc # <<>>
    /\ wc' = Rest(wc)
    /\ got' = Append(got, Head(wc))
    /\ LET f == Head(wc) IN
       \/ /\ wk' = [wk EXCEPT ![w] = [Idle("add") EXCEPT
                        !.path = f.path, !.size = f.size,
                        !.sum = computeChecksum(tree, f.path, f.size)]]
          /\ UNCHANGED log
       \/ /\ wk' = Next0(w)
          /\ log' = log \cup {Ev("hash", f.path, 0, FALSE), Cannot(f.path)}
    /\ UNCHANGED <<run, phase, tree, sameTree, clean, crashed, sent, pos, walkErr, joined, touched,
                   store, seq, cloud, store0, upOK, created, report>>

\* The range over the closed and drained channel ends and the worker sends
\* on the done channel, which has no buffer: Walk, past close(w.wc), receives.
Drained(w) ==
    /\ wk[w].pc = "recv"
    /\ wc = <<>>
    /\ phase = "closed"
    /\ joined < Threads
    /\ joined' = joined + 1
    /\ wk' = [wk EXCEPT ![w] = Idle("exit")]
    /\ UNCHANGED <<run, phase, tree, sameTree, clean, crashed, sent, got, pos, walkErr, wc, touched,
                   store, seq, cloud, store0, log, upOK, created, report>>

\* i.db.Add(p, size, sum): one bolt transaction, or an error and no write.
Add(w) ==
    /\ wk[w].pc = "add"
    /\ LET me == wk[w]
           r == DBAdd(store, seq, me.path, me.size, me.sum)
       IN \/ /\ store' = r.bkt
             /\ seq' = r.seq
             /\ created' = IF r.bkt = store THEN created ELSE Append(created, r.id)
             /\ wk' = [wk EXCEPT ![w] = [me EXCEPT !.pc = "touch",
                          !.added = r.added, !.id = r.id, !.dbpath = r.rPath]]
             /\ UNCHANGED log
          \/ /\ wk' = Next0(w)
             /\ log' = log \cup {Ev("add", me.path, 0, FALSE), Cannot(me.path)}
             /\ UNCHANGED <<store, seq, created>>
    /\ UNCHANGED <<run, phase, tree, sameTree, clean, crashed, sent, got, pos, walkErr, wc, joined, touched,
                   cloud, store0, upOK, report>>

\* The touched map read as if no worker had written it.
WasTouchedNever(found, id) == FALSE

\* wasTouched := i.touched[id], read under mTouched.
WasTouched(found, id) == id \in found

\* The branch taken on the result of DB.Add alone.
BranchRace(added, wasTouched, p, dbpath) ==
    IF added THEN "upload"
    ELSE IF wasTouched THEN "recv"
    ELSE IF p # dbpath THEN "rename"
    ELSE "recv"

\* Where work goes after the critical section.
Branch(added, wasTouched, p, dbpath) ==
    IF added /\ ~wasTouched THEN "upload"
    ELSE IF wasTouched THEN "recv"
    ELSE IF p # dbpath THEN "rename"
    ELSE "recv"

\* The critical section on mTouched and the branch that follows it.
Touch(w) ==
    /\ wk[w].pc = "touch"
    /\ LET me == wk[w]
           wasTouched == WasTouched(touched, me.id)
           to == Branch(me.added, wasTouched, me.path, me.dbpath)
       IN /\ touched' = touched \cup {me.id}
          /\ wk' = IF to = "recv" THEN Next0(w)
                   ELSE [wk EXCEPT ![w] = [me EXCEPT !.pc = to]]
          /\ log' = log \cup
                {[Ev("touch", me.path, me.id, ~wasTouched) EXCEPT
                    !.of = IF wasTouched THEN DupLine(me.path, me.dbpath) ELSE ""]}
    /\ UNCHANGED <<run, phase, tree, sameTree, clean, crashed, sent, got, pos, walkErr, wc, joined, store,
                   seq, cloud, store0, upOK, created, report>>

\* i.cloud.Upload(ctx, fp, p, size, sum).
Upload(w) ==
    /\ wk[w].pc = "upload"
    /\ LET me == wk[w]
           key == computeKey(me.size, me.sum)
           obj == CloudJoin(BackupDir, me.path)
           fail == /\ wk' = Next0(w)
                   /\ log' = log \cup {Ev("upload", me.path, me.id, FALSE),
                                      Cannot(me.path)}
                   /\ UNCHANGED upOK
           ok(md5) == /\ wk' = [wk EXCEPT ![w] = [me EXCEPT !.pc = "update",
                                   !.cloud = obj, !.md5 = md5]]
                      /\ log' = log \cup {Ev("upload", me.path, me.id, TRUE)}
                      /\ upOK' = upOK \cup {key}
       IN \/ \* os.Open, object.Attrs or io.Copy fails
             /\ fail
             /\ UNCHANGED cloud
          \/ \* the object exists and is this file
             /\ obj \in DOMAIN cloud
             /\ SameFile(cloud[obj], me.size, me.sum)
             /\ ok(cloud[obj].md5)
             /\ UNCHANGED cloud
          \/ \* the object exists and is another file
             /\ obj \in DOMAIN cloud
             /\ ~SameFile(cloud[obj], me.size, me.sum)
             /\ wk' = Next0(w)
             /\ log' = log \cup {Ev("upload", me.path, me.id, FALSE),
                                Ev("conflict", me.path, me.id, FALSE),
                                Cannot(me.path)}
             /\ UNCHANGED <<cloud, upOK>>
          \/ \* the object is written and its metadata set
             /\ obj \notin DOMAIN cloud
             /\ cloud' = [o \in DOMAIN cloud \cup {obj} |->
                            IF o = obj
                            THEN Object(me.size, encode(me.sum), ObjectMD5(me.size, me.sum))
                            ELSE cloud[o]]
             /\ ok(ObjectMD5(me.size, me.sum))
          \/ \* the object is written and object.Update fails
             /\ obj \notin DOMAIN cloud
             /\ cloud' = [o \in DOMAIN cloud \cup {obj} |->
                            IF o = obj
                            THEN Object(me.size, "", ObjectMD5(me.size, me.sum))
                            ELSE cloud[o]]
             /\ fail
    /\ UNCHANGED <<run, phase, tree, sameTree, clean, crashed, sent, got, pos, walkErr, wc, joined, touched,
                   store, seq, store0, created, report>>

\* i.db.Update after the upload; its error is dropped, work prints
\* "Uploaded" and returns nil.
Update(w) ==
    /\ wk[w].pc = "update"
    /\ LET me == wk[w]
           key == computeKey(me.size, me.sum)
       IN \/ /\ key \in DOMAIN store
             /\ store' = DBUpdate(store, key, SetCloud(store[key], me.cloud, me.md5))
             /\ log' = log \cup {Ev("update", me.path, me.id, TRUE)}
          \/ /\ UNCHANGED store
             /\ log' = log \cup {Ev("update", me.path, me.id, FALSE)}
    /\ wk' = Next0(w)
    /\ UNCHANGED <<run, phase, tree, sameTree, clean, crashed, sent, got, pos, walkErr, wc, joined, touched,
                   seq, cloud, store0, upOK, created, report>>

\* i.db.Update of the path of a renamed file; its error is dropped and work
\* returns nil.
Rename(w) ==
    /\ wk[w].pc = "rename"
    /\ LET me == wk[w]
           key == computeKey(me.size, me.sum)
       IN \/ /\ key \in DOMAIN store
             /\ store' = DBUpdate(store, key, SetPath(store[key], me.path))
             /\ log' = log \cup {Ev("rename", me.path, me.id, TRUE)}
          \/ /\ UNCHANGED store
             /\ log' = log \cup {Ev("rename", me.path, me.id, FALSE)}
    /\ wk' = Next0(w)
    /\ UNCHANGED <<run, phase, tree, sameTree, clean, crashed, sent, got, pos, walkErr, wc, joined, touched,
                   seq, cloud, store0, upOK, created, report>>

Next ==
    \/ StartRun
    \/ Visit
    \/ CloseQueue
    \/ Return
    \/ \E w \in Workers : Receive(w)
    \/ \E w \in Workers : Drained(w)
    \/ \E w \in Workers : Add(w)
    \/ \E w \in Workers : Touch(w)
    \/ \E w \in Workers : Upload(w)
    \/ \E w \in Workers : Update(w)
    \/ \E w \in Workers : Rename(w)

Spec == Init /\ [][Next]_vars

\* The process is killed during the walk: its goroutines and channels are
\* gone, what bolt committed and what the bucket holds stay.  The last run
\* of a behaviour is left to end, no run follows it.
Crash ==
    /\ phase \in {"walk", "closed"}
    /\ run < MaxRuns
    /\ phase' = "crashed"
    /\ wk' = [w \in Workers |-> Idle("exit")]
    /\ wc' = <<>>
    /\ UNCHANGED <<run, tree, sameTree, clean, crashed, sent, got, pos, walkErr,
                   joined, touched, store, seq, cloud, store0, log, upOK,
                   created, report>>

\* The process is killed inside Cloud.Upload, between w.Close and
\* object.Update: the object is in the bucket without its digest.
CrashInUpload(w) ==
    /\ wk[w].pc = "upload"
    /\ run < MaxRuns
    /\ LET me == wk[w]
           obj == CloudJoin(BackupDir, me.path)
       IN /\ obj \notin DOMAIN cloud
          /\ cloud' = [o \in DOMAIN cloud \cup {obj} |->
                         IF o = obj
                         THEN Object(me.size, "", ObjectMD5(me.size, me.sum))
                         ELSE cloud[o]]
    /\ phase' = "crashed"
    /\ wk' = [v \in Workers |-> Idle("exit")]
    /\ wc' = <<>>
    /\ UNCHANGED <<run, tree, sameTree, clean, crashed, sent, got, pos, walkErr,
                   joined, touched, store, seq, store0, log, upOK, created,
                   report>>

NextCrash ==
    \/ Next
    \/ Crash
    \/ \E w \in Workers : CrashInUpload(w)

\* The runs when the process can be killed at any point of the walk.
SpecCrash == Init /\ [][NextCrash]_vars

\* The runs under Go's scheduler: a goroutine that can take a step takes it,
\* and every call of work into the file system, bolt or the remote store
\* returns.  Nothing makes the operator start another run.
FairSpec ==
    /\ Spec
    /\ WF_vars(Visit)
    /\ WF_vars(CloseQueue)
    /\ WF_vars(Return)
    /\ \A w \in Workers :
         /\ WF_vars(Receive(w))
         /\ WF_vars(Drained(w))
         /\ WF_vars(Add(w))
         /\ WF_vars(Touch(w))
         /\ WF_vars(Upload(w))
         /\ WF_vars(Update(w))
         /\ WF_vars(Rename(w))

\* ------------------------------------------------------ reading the history

\* Main is past Walk and past what it does with the result.
RunOver == phase \in {"reported", "fatal"}

\* The content key of a file of the tree.
KeyOf(p) == computeKey(tree[p].size, tree[p].sum)

\* The events of one kind.
Evs(ev) == {e \in log : e.ev = ev}

\* A worker is in work, past DB.Add.
PastAdd(w) == wk[w].pc \in {"touch", "upload", "update", "rename"}

\* The content key of the file a worker holds.
WKey(w) == computeKey(wk[w].size, wk[w].sum)

\* The files Cloud.Upload was or is being called for, by key.
Uploaders(k) ==
    {e.path : e \in {x \in Evs("upload") : KeyOf(x.path) = k}}
    \cup {wk[w].path : w \in {x \in Workers : wk[x].pc = "upload" /\ WKey(x) = k}}

\* An entry is complete: Cloud and Checksum are both set.
Complete(e) == e.Cloud # "" /\ Len(e.MD5) > 0

\* ------------------------------------------------------------------- claims

\* C1: within one run, Cloud.Upload is called for at most one file per
\* content key, whatever the interleaving of the workers.
C1_UploadOncePerKey == \A k \in Keys : Cardinality(Uploaders(k)) <= 1

\* Two workers hold files of the same key, both were told "added" by DB.Add,
\* one is in Cloud.Upload and the other has not yet read the touched map.
C1_Witness ==
    \E w1, w2 \in Workers :
        /\ w1 # w2
        /\ wk[w1].pc = "upload"
        /\ wk[w2].pc = "touch"
        /\ wk[w2].added
        /\ WKey(w1) = WKey(w2)

\* C2: the store holds one entry per content key, each under its own key, no
\* two entries share an ID, every worker that DB.Add answered holds the ID of
\* the one entry of its key, and the IDs grow in the order of creation.
C2_OneEntryPerKey ==
    /\ \A k \in DOMAIN store : computeKey(store[k].Size, store[k].Hash) = k
    /\ \A k1, k2 \in DOMAIN store : store[k1].ID = store[k2].ID => k1 = k2
    /\ \A w \in Workers :
         PastAdd(w) => WKey(w) \in DOMAIN store /\ store[WKey(w)].ID = wk[w].id
    /\ \A i, j \in 1..Len(created) : i < j => created[i] < created[j]
    /\ {created[i] : i \in 1..Len(created)} = {store[k].ID : k \in DOMAIN store}
    /\ Len(created) = Cardinality(DOMAIN store)

\* Two workers raced on a key that was absent when the run started, and
\* DB.Add answered both.
C2_Witness ==
    \E w1, w2 \in Workers :
        /\ w1 # w2
        /\ PastAdd(w1) /\ PastAdd(w2)
        /\ WKey(w1) = WKey(w2)
        /\ WKey(w1) \notin DOMAIN store0
        /\ wk[w1].id = wk[w2].id

\* C3: of the files of one run that DB.Add answered with the same ID, exactly
\* one saw the ID untouched; the others call neither Cloud.Upload nor
\* DB.Update.
C3_TouchedAtomic ==
    /\ touched = {e.id : e \in Evs("touch")}
    /\ \A id \in touched :
         Cardinality({e \in Evs("touch") : e.id = id /\ e.ok}) = 1
    /\ \A e \in Evs("touch") :
         ~e.ok => \A x \in log : x.path = e.path => x.ev = "touch"
    /\ \A w \in Workers :
         wk[w].pc \in {"upload", "update", "rename"}
            => Ev("touch", wk[w].path, wk[w].id, TRUE) \in log

\* The run is over; of two files of one key the first touched had its upload
\* fail, so the second was classified as a duplicate of an incomplete entry.
C3_Witness ==
    /\ RunOver
    /\ \E e1, e2 \in Evs("touch") :
         /\ e1.id = e2.id
         /\ e1.ok /\ ~e2.ok
         /\ Ev("upload", e1.path, e1.id, FALSE) \in log
         /\ ~Complete(store[KeyOf(e2.path)])

\* The files walker.visit pushes on the work channel.
Pushed == {p \in DOMAIN tree : visit(p, tree[p]) = "push"}

\* The files of this run that DB.Add answered, by key.
Answered(k) == {e.path : e \in {x \in Evs("touch") : KeyOf(x.path) = k}}

\* Cloud and Checksum of the entries the run started with are as they were.
CloudKept ==
    \A k \in DOMAIN store0 :
        /\ k \in DOMAIN store
        /\ store[k].Cloud = store0[k].Cloud
        /\ store[k].MD5 = store0[k].MD5

\* The first run left a complete entry for every file it had to back up.
AllBackedUp ==
    \A p \in Pushed : KeyOf(p) \in DOMAIN store0 /\ Complete(store0[KeyOf(p)])

\* C4 as stated: in a run over the tree of the run before, Cloud.Upload is
\* never called and Cloud and Checksum of every entry stay as they were.
C4_Original ==
    sameTree => (\A k \in Keys : Uploaders(k) = {}) /\ CloudKept

\* C4 amended: in a run over the tree of the run before, when the run before
\* left a complete entry for every file the walk queues, Cloud.Upload is never
\* called and Cloud and Checksum of every entry stay as they were.
C4_SecondRunIdle ==
    (sameTree /\ AllBackedUp) => (\A k \in Keys : Uploaders(k) = {}) /\ CloudKept

\* The second run over an unchanged tree with two files of one key is over
\* and both files went through DB.Add.
C4_Witness ==
    /\ RunOver
    /\ sameTree
    /\ AllBackedUp
    /\ \E k \in Keys : Cardinality(Answered(k)) = 2

\* The entry of key k is as the run found it, but for its Path.
KeptButPath(k) ==
    /\ k \in DOMAIN store
    /\ store[k] = [store0[k] EXCEPT !.Path = store[k].Path]

\* Nothing failed in this run.
NoFailure == ~walkErr /\ \A e \in log : e.ok \/ e.ev = "touch"

\* C5 as stated, for the runs in which nothing failed: after the run, a
\* complete entry has the path of any file of its key that the run processed
\* at another path than the stored one.
C5_Original ==
    (RunOver /\ NoFailure) =>
        \A k \in DOMAIN store0 : Complete(store0[k]) =>
            /\ KeptButPath(k)
            /\ Uploaders(k) = {}
            /\ \A p \in Answered(k) : p # store0[k].Path => store[k].Path = p

\* C5 amended: for an entry that is complete when the run starts, the run
\* calls no upload and changes nothing but Path; after the run Path is the
\* path of the first file of that key the run touched when that path differs
\* from the stored one and the DB.Update of the rename committed, and the
\* stored path otherwise.
C5_Rename ==
    \A k \in DOMAIN store0 : Complete(store0[k]) =>
        /\ KeptButPath(k)
        /\ Uploaders(k) = {}
        /\ RunOver =>
             LET first == {e \in Evs("touch") : e.ok /\ KeyOf(e.path) = k}
                 moved == {e \in first : /\ e.path # store0[k].Path
                                         /\ Ev("rename", e.path, e.id, TRUE) \in log}
             IN /\ \A e \in moved : store[k].Path = e.path
                /\ moved = {} => store[k].Path = store0[k].Path
                /\ \A e \in first : e.path # store0[k].Path =>
                     \E ok \in BOOLEAN : Ev("rename", e.path, e.id, ok) \in log

\* The run is over and moved the path of a complete entry to the file it
\* found, the old path being gone from the tree.
C5_Witness ==
    /\ RunOver
    /\ \E k \in DOMAIN store0 :
         /\ Complete(store0[k])
         /\ store0[k].Path \notin DOMAIN tree
         /\ store[k].Path # store0[k].Path
         /\ store[k].Path \in Answered(k)

\* C6 as stated: after a run that met no traversal error, every key that
\* had an incomplete entry at the start and a file in the queue was uploaded.
C6_Original ==
    phase = "reported" =>
        \A k \in DOMAIN store0 :
            (~Complete(store0[k]) /\ \E p \in Pushed : KeyOf(p) = k)
                => /\ Uploaders(k) # {}
                   /\ store[k].ID = store0[k].ID

\* C6 amended: for an entry that is incomplete when the run starts, DB.Add
\* answers every file of that key with the entry's ID, no entry or ID is
\* created for the key, and once the run is over Cloud.Upload was called for
\* exactly one file of the key if DB.Add answered any.
C6_Resume ==
    \A k \in DOMAIN store0 : ~Complete(store0[k]) =>
        /\ k \in DOMAIN store
        /\ store[k].ID = store0[k].ID
        /\ \A w \in Workers : (PastAdd(w) /\ WKey(w) = k) => wk[w].id = store0[k].ID
        /\ \A e \in Evs("touch") : KeyOf(e.path) = k => e.id = store0[k].ID
        /\ \A e \in Evs("upload") : KeyOf(e.path) = k => e.id = store0[k].ID
        /\ (RunOver /\ Answered(k) # {}) => Cardinality(Uploaders(k)) = 1

\* The run is over; it found an incomplete entry, uploaded a file of its key
\* and completed the entry without creating another.
C6_Witness ==
    /\ RunOver
    /\ \E k \in DOMAIN store0 :
         /\ ~Complete(store0[k])
         /\ Complete(store[k])
         /\ \E e \in Evs("upload") : KeyOf(e.path) = k /\ e.ok
         /\ Len(created) = Cardinality(DOMAIN store0)

\* The lines of the report that name entry k.
LinesOf(k) == {i \in 1..Len(report) : report[i].key = k}

\* The report holds each untouched entry once and no touched entry.
ReportExact ==
    \A k \in DOMAIN store :
        Cardinality(LinesOf(k)) = (IF store[k].ID \in touched THEN 0 ELSE 1)

\* C7 as stated: after a run, the report holds each untouched entry once and
\* no touched entry.
C7_Original == RunOver => ReportExact

\* C7 amended: after a run whose traversal returned no error, the report
\* holds each untouched entry once, with its key, ID and Path, and nothing
\* else; after a traversal error main stops before the report.
C7_Report ==
    /\ phase = "reported" =>
         /\ ReportExact
         /\ \A i \in 1..Len(report) :
              /\ report[i].key \in DOMAIN store
              /\ report[i].id = store[report[i].key].ID
              /\ report[i].path = store[report[i].key].Path
    /\ phase # "reported" => report = <<>>

\* A report that names one entry and leaves out another that was touched.
C7_Witness ==
    /\ phase = "reported"
    /\ Len(report) = 1
    /\ \E k \in DOMAIN store : store[k].ID \in touched

\* C8: an entry with Cloud or Checksum set has both set, Cloud.Upload
\* returned success for its key, and the bucket holds at its Cloud path an
\* object with the entry's size, digest and checksum; the entry of a file
\* whose upload failed in this run has both fields empty.
C8_SetOnlyAfterUpload ==
    /\ \A k \in DOMAIN store :
         LET e == store[k] IN
         (e.Cloud # "" \/ Len(e.MD5) > 0) =>
            /\ Complete(e)
            /\ k \in upOK
            /\ e.Cloud \in DOMAIN cloud
            /\ cloud[e.Cloud].size = e.Size
            /\ cloud[e.Cloud].meta = encode(e.Hash)
            /\ cloud[e.Cloud].md5 = e.MD5
    /\ \A x \in Evs("upload") :
         ~x.ok => store[KeyOf(x.path)].Cloud = "" /\ Len(store[KeyOf(x.path)].MD5) = 0

\* One entry was completed after its upload, the upload of another file met
\* an object of another content at its path and left its entry empty.
C8_Witness ==
    /\ \E k \in DOMAIN store : Complete(store[k])
    /\ \E x \in Evs("upload") :
         /\ ~x.ok
         /\ CloudJoin(BackupDir, x.path) \in DOMAIN cloud
         /\ cloud[CloudJoin(BackupDir, x.path)].meta \notin {"", encode(tree[x.path].sum)}

\* C9: no step changes a Cloud that is set or a Checksum that is set.
C9_CloudStable ==
    [][\A k \in DOMAIN store :
          /\ store[k].Cloud # "" =>
                k \in DOMAIN store' /\ store'[k].Cloud = store[k].Cloud
          /\ Len(store[k].MD5) > 0 =>
                k \in DOMAIN store' /\ store'[k].MD5 = store[k].MD5]_vars

\* A later run renamed an entry that was complete, under a cloud path that is
\* not the one of its new path.
C9_Witness ==
    \E k \in DOMAIN store0 :
        /\ Complete(store0[k])
        /\ store[k].Path # store0[k].Path
        /\ store[k].Cloud # CloudJoin(BackupDir, store[k].Path)

\* C10: no step removes an entry or changes its ID, Size or Hash, and every
\* entry sits under the key of its Size and Hash.
C10_NeverDestructive ==
    [][\A k \in DOMAIN store :
          /\ k \in DOMAIN store'
          /\ store'[k].ID = store[k].ID
          /\ store'[k].Size = store[k].Size
          /\ store'[k].Hash = store[k].Hash
          /\ computeKey(store'[k].Size, store'[k].Hash) = k]_vars

\* A run that started with entries in the store is over, in which one file
\* failed in computeChecksum, DB.Add or Cloud.Upload and the DB.Update of
\* another failed.
C10_Witness ==
    /\ RunOver
    /\ DOMAIN store0 # {}
    /\ \E e \in Evs("hash") \cup Evs("add") \cup Evs("upload") : ~e.ok
    /\ \E e \in Evs("update") \cup Evs("rename") : ~e.ok

\* C11: every fingerprint, DB.Add, DB.Update or Cloud.Upload failure met
\* while processing a file is reported as an error for that file, and the
\* worker that met it is back at the work channel or holds another file.
C11_Original ==
    \A e \in Failures :
        /\ Cannot(e.path) \in log
        /\ \A w \in Workers : wk[w].path # e.path

\* C12: once Walk has returned, the traversal is over, the work channel is
\* closed and empty, each of the workers has sent on the done channel and
\* left worker, so that none of them reads or writes the touched map or the
\* store any more; the report is DB.CheckMissing of the store and the touched
\* map as the workers left them.
C12_ReturnAfterWorkers ==
    RunOver =>
        /\ pos = Len(Listing(tree))
        /\ wc = <<>>
        /\ joined = Threads
        /\ \A w \in Workers : wk[w].pc = "exit"
        /\ ~(\E w \in Workers : ENABLED Add(w) \/ ENABLED Touch(w)
                                    \/ ENABLED Update(w) \/ ENABLED Rename(w))
        /\ phase = "reported" => report = CheckMissing(store, touched)

\* Walk has returned after the workers took two files of different content
\* through the store and the touched map.
C12_Witness ==
    /\ phase = "reported"
    /\ Cardinality({e.path : e \in Evs("touch")}) = 2
    /\ Cardinality(DOMAIN store) = 2
    /\ touched # {}

\* The keys of the files the walk queues.
PushedKeys == {KeyOf(p) : p \in Pushed}

\* C13 as stated: at the end of a run, when no file read, store transaction
\* or remote call has failed in this run or in a run before, every key of a
\* queued file has a complete entry, a key first seen in this run was
\* uploaded for exactly one file and a key seen before was not uploaded.
C13_Original ==
    (RunOver /\ clean /\ NoFault) =>
        \A k \in PushedKeys :
            /\ k \in DOMAIN store
            /\ Complete(store[k])
            /\ Cardinality(Uploaders(k)) = (IF k \in DOMAIN store0 THEN 0 ELSE 1)

\* C13 amended: at the end of a run in which nothing failed and Cloud.Upload
\* found no object of another content at its path, every key of a queued
\* file has a complete entry, and the run uploaded exactly one file for each
\* of these keys whose entry was absent or incomplete at the start; in no
\* run, whatever fails, is a file uploaded for a key whose entry was complete
\* at the start.
C13_UploadedOnce ==
    /\ (RunOver /\ NoFailure) =>
          \A k \in PushedKeys :
              /\ k \in DOMAIN store
              /\ Complete(store[k])
              /\ Cardinality(Uploaders(k)) =
                    (IF k \in DOMAIN store0 /\ Complete(store0[k]) THEN 0 ELSE 1)
    /\ \A k \in DOMAIN store0 : Complete(store0[k]) => Uploaders(k) = {}

\* The second of two runs without failure is over: it found one file of a
\* content the first run had backed up and one of a new content, and both
\* entries are complete.
C13_Witness ==
    /\ RunOver /\ clean /\ NoFailure
    /\ \E k1, k2 \in PushedKeys :
         /\ k1 \in DOMAIN store0 /\ Complete(store0[k1])
         /\ k2 \notin DOMAIN store0 /\ Complete(store[k2])
         /\ Uploaders(k1) = {}
         /\ Cardinality(Uploaders(k2)) = 1

\* C14: a step of Cloud.Upload for a file, by what sits at its object path.
\* An object of the same size and digest: nothing is written, no conflict is
\* raised, and success returns the path and the checksum of that object.  An
\* object of another size or digest: Upload returns an error (the conflict,
\* unless it failed before the comparison) and writes nothing.  No object: no
\* other object changes, no conflict is
\* raised, and success leaves at the path an object of the file's size with
\* the digest as metadata, whose checksum is returned.
C14_UploadCases ==
    [][\A w \in Workers :
         (wk[w].pc = "upload" /\ wk'[w] # wk[w]) =>
            LET me == wk[w]
                obj == CloudJoin(BackupDir, me.path)
                success == wk'[w].pc = "update"
                conflict == Ev("conflict", me.path, me.id, FALSE) \in log'
                same == /\ cloud[obj].size = me.size
                        /\ cloud[obj].meta = encode(me.sum)
            IN /\ (obj \in DOMAIN cloud /\ same) =>
                    /\ cloud' = cloud
                    /\ ~conflict
                    /\ success => /\ wk'[w].cloud = obj
                                  /\ wk'[w].md5 = cloud[obj].md5
               /\ (obj \in DOMAIN cloud /\ ~same) =>
                    /\ cloud' = cloud
                    /\ ~success
               /\ obj \notin DOMAIN cloud =>
                    /\ \A o \in DOMAIN cloud :
                         o \in DOMAIN cloud' /\ cloud'[o] = cloud[o]
                    /\ ~conflict
                    /\ success =>
                         /\ obj \in DOMAIN cloud'
                         /\ cloud'[obj].size = me.size
                         /\ cloud'[obj].meta = encode(me.sum)
                         /\ wk'[w].cloud = obj
                         /\ wk'[w].md5 = cloud'[obj].md5]_vars

\* In one run Cloud.Upload returned a conflict for one file and success for
\* another, and an object without digest sits in the bucket.
C14_Witness ==
    /\ \E e \in Evs("conflict") : TRUE
    /\ \E w \in Workers : wk[w].pc = "update" /\ wk[w].cloud \in DOMAIN cloud
    /\ \E o \in DOMAIN cloud : cloud[o].meta = ""

\* The duplicate lines of this run.
Dups == {e \in Evs("touch") : ~e.ok}

\* C15: a run that started from an empty store over a tree in which a and b
\* hold the same content, and in which nothing failed, ends with one entry,
\* one file uploaded and one duplicate line, and that line names the path of
\* the other file.
C15_Original ==
    (/\ RunOver /\ NoFailure
     /\ store0 = <<>>
     /\ Pushed = {"a", "b"}
     /\ KeyOf("a") = KeyOf("b")) =>
        /\ Cardinality(DOMAIN store) = 1
        /\ Cardinality(Uploaders(KeyOf("a"))) = 1
        /\ Cardinality(Dups) = 1
        /\ \A e \in Dups :
             /\ e.of # RootJoin(root, e.path)
             /\ \E p \in Pushed \ {e.path} : e.of = RootJoin(root, p)

Holders(p) == {w \in Workers : wk[w].path = p}

\* The events that end the processing of a file whatever came before.
Ended(p) == {e \in log : e.path = p /\ e.ev \in {"error", "update", "rename"}}

\* C17: the items received followed by the items in the channel are the
\* items sent, in order, and no item is sent twice; an item received is in
\* the hands of one worker or its processing has ended, never both, and no
\* step of its processing happened twice; no worker holds a file that was not received; and when Walk has
\* returned the channel is empty and every item sent was received.
C17_ExactlyOnce ==
    /\ got \o wc = sent
    /\ \A i, j \in 1..Len(sent) : sent[i].path = sent[j].path => i = j
    /\ \A i \in 1..Len(got) :
         LET p == got[i].path IN
         /\ Cardinality(Holders(p)) <= 1
         /\ Holders(p) = {} => \E e \in log : e.path = p
         /\ Holders(p) # {} => Ended(p) = {}
         /\ \A e1, e2 \in log :
              (e1.path = p /\ e2.path = p /\ e1.ev = e2.ev) => e1 = e2
    /\ \A w \in Workers :
         wk[w].path # "" => \E i \in 1..Len(got) : got[i].path = wk[w].path
    /\ \A e \in log : \E i \in 1..Len(got) : got[i].path = e.path
    /\ RunOver => wc = <<>> /\ got = sent

\* Walk has returned from a run in which two items were sent and received,
\* and the processing of both went as far as an error or a DB.Update.
C17_Witness ==
    /\ RunOver
    /\ Len(sent) = 2
    /\ got = sent
    /\ \A p \in {"a", "b"} : Ended(p) # {}

\* C18: in every step that makes an entry complete, the Cloud it gets is
\* the backup directory joined with the Path the entry holds after the step.
C18_Original ==
    [][\A k \in DOMAIN store' :
          (/\ k \in DOMAIN store => ~Complete(store[k])
           /\ Complete(store'[k]))
             => store'[k].Cloud = CloudJoin(BackupDir, store'[k].Path)]_vars

\* The queued files of key k.
FilesOf(k) == {p \in Pushed : KeyOf(p) = k}

\* C19 as stated: a run over the tree of the run before, no run before it
\* having met a failure and the run before having backed up every queued
\* file, ends with the store as it found it.
C19_Original == (RunOver /\ sameTree /\ clean /\ AllBackedUp) => store = store0

\* C19 amended: a run over the tree of the run before, no run before it
\* having met a failure and the run before having backed up every queued
\* file, creates and removes no entry and changes no field but Path; the
\* entry of a key that a single queued file holds is left as it was, Path
\* included, and the Path of a key that several queued files hold is the
\* stored one or the path of one of these files.
C19_UnchangedTree ==
    (sameTree /\ clean /\ AllBackedUp) =>
        /\ DOMAIN store = DOMAIN store0
        /\ \A k \in DOMAIN store0 :
             /\ KeptButPath(k)
             /\ Cardinality(FilesOf(k)) <= 1 => store[k] = store0[k]
             /\ store[k].Path \in {store0[k].Path} \cup FilesOf(k)

\* The second run over a tree with two files of one content is over,
\* nothing failed in either run, and the entry names the other file now.
C19_Witness ==
    /\ RunOver /\ sameTree /\ clean /\ AllBackedUp /\ NoFailure
    /\ \E k \in DOMAIN store0 :
         /\ Cardinality(FilesOf(k)) = 2
         /\ store[k].Path # store0[k].Path
         /\ store[k].Cloud = store0[k].Cloud

\* C20: a run over the tree of the run before, which was interrupted, ends,
\* when no file read, store transaction or remote call failed in it, with a
\* complete entry for every key the interrupted run left an entry of and the
\* tree holds a queued file of.
C20_Original ==
    (RunOver /\ crashed /\ sameTree /\ NoFault) =>
        \A k \in DOMAIN store0 : FilesOf(k) # {} => Complete(store[k])

====
